---- MODULE Spec2Model ----
(***************************************************************************)
(* Model of Chell: the traceback renderer (src/chell/traceb.py), the shell *)
(* loop (src/chell/shell/base.py) and the build script's parse_build       *)
(* (src/build/setup.py).                                                   *)
(*                                                                         *)
(* Text is a sequence of one-character strings; an ANSI escape sequence is *)
(* one element.  A list of lines is a sequence of texts.                   *)
(***************************************************************************)
EXTENDS Integers, Sequences, FiniteSets, TLC

VARIABLES
    \* ---- render_tb_source applied to one frame
    sframe,      \* the frame (and its code object) handed to render_tb_source
    swin,        \* outcome of the call: pending, raised, or the returned text
    \* ---- one TracebackRender object and the call that uses it
    caller,      \* "render_tb": render_tb(exc, tb) runs; "api": the class is used directly
    chain,       \* the traceback chain, head first; tb i has tb_next i+1
    pc,          \* position of the render_tb call / of the api client
    cur,         \* the tb the innermost active inner() holds
    rendered,    \* render._TracebackRender__rendered
    last_tb,     \* render._TracebackRender__last_tb (NoTb is None)
    lastWrites,  \* number of times the `last` setter ran
    err,         \* the exception that left the call ("none" while there is none)
    msg,         \* value read from the `message` property
    \* ---- main_shell_loop
    shpc,        \* "loop", "returned" or "escaped" (an exception left the loop)
    token,       \* local `token`
    reads,       \* every response the input caller returned, in order
    out,         \* values written through shellout
    renders,     \* number of render_tb calls the shell made
    faults,      \* number of exceptions raised inside the loop
    \* ---- parse_build
    build_params, \* the manifest's keywords load_build_from_manifest collected
    SETUP_BUILD, \* the loaded ConfigBuild (the fields parse_build touches)
    reqLines,    \* what load_requirements() returns
    found,       \* what find_packages() returns
    bpc,         \* "loaded" or "parsed"
    setup_build, \* local copy parse_build merges into
    build        \* the mapping parse_build returns

srcVars == <<sframe, swin>>
tbVars  == <<caller, chain, pc, cur, rendered, last_tb, lastWrites, err, msg>>
shVars  == <<shpc, token, reads, out, renders, faults>>
bdVars  == <<build_params, SETUP_BUILD, reqLines, found, bpc, setup_build, build>>
vars    == <<srcVars, tbVars, shVars, bdVars>>

----------------------------------------------------------------------------
(* Bounds *)
MaxSrcLen    == 4   \* characters of a code unit's source text
MaxFirstLine == 2   \* co_firstlineno ranges over 1..MaxFirstLine
MaxLineno    == 5   \* f_lineno ranges over 0..MaxLineno
MaxFrames    == 3   \* frames of a traceback chain
MaxReads     == 3   \* lines the shell reads

----------------------------------------------------------------------------
(* Python text primitives *)

RECURSIVE Split(_, _)
\* str.split(sep) for a one-character separator
Split(s, sep) ==
    IF \E i \in 1..Len(s) : s[i] = sep
    THEN LET i == CHOOSE k \in 1..Len(s) :
                      s[k] = sep /\ \A j \in 1..(k - 1) : s[j] # sep
         IN  <<SubSeq(s, 1, i - 1)>> \o Split(SubSeq(s, i + 1, Len(s)), sep)
    ELSE <<s>>

RECURSIVE Join(_, _)
\* sep.join(lines)
Join(lines, sep) ==
    IF lines = <<>> THEN <<>>
    ELSE IF Len(lines) = 1 THEN lines[1]
    ELSE lines[1] \o sep \o Join(Tail(lines), sep)

\* seq[:stop] with Python's slice semantics: a negative stop counts from the end
SliceTo(seq, stop) ==
    LET n == Len(seq)
        e == IF stop >= 0 THEN (IF stop < n THEN stop ELSE n)
             ELSE (IF n + stop > 0 THEN n + stop ELSE 0)
    IN  SubSeq(seq, 1, e)

\* seq[::-1]
Reversed(seq) == [i \in 1..Len(seq) |-> seq[Len(seq) + 1 - i]]

Digit(d) == <<"0", "1", "2", "3", "4", "5", "6", "7", "8", "9">>[d + 1]

RECURSIVE Str(_)
\* str(n) for an int
Str(n) ==
    IF n < 0 THEN <<"-">> \o Str(-n)
    ELSE IF n < 10 THEN <<Digit(n)>>
    ELSE Str(n \div 10) \o <<Digit(n % 10)>>

\* s.rjust(width, fill)
RJust(s, width, fill) ==
    IF Len(s) >= width THEN s
    ELSE [i \in 1..(width - Len(s)) |-> fill] \o s

RECURSIVE Repeat(_, _)
\* s * k
Repeat(s, k) == IF k <= 0 THEN <<>> ELSE s \o Repeat(s, k - 1)

----------------------------------------------------------------------------
(* traceb.py: constants and formatting helpers *)

FRAME_OVERFLOW == <<"\t", ".", ".", ".">>
NEWLINE  == <<"\n">>
TAB_SIZE == 4
TAB      == Repeat(<<" ">>, TAB_SIZE)

\* LINENO % s
LINENO(s)  == <<"ESC[35m">> \o s \o <<"ESC[0m">>
ErrSuffix  == <<" ", "ESC[31m", "<", "<", "]", "ESC[0m">>
\* ERRLINE % s
ERRLINE(s) == s \o ErrSuffix

\* tab_count 0 stands for an omitted (None) tab_count: `tab_count or 1`
indent_line(line, tab_count) ==
    LET tc == IF tab_count = 0 THEN 1 ELSE tab_count
    IN  Repeat(TAB, tc) \o line

\* every caller leaves `predicate` at its default, which accepts every line
indent_lines(lines, tab_count) ==
    LET tc == IF tab_count = 0 THEN 1 ELSE tab_count
    IN  [ind \in 1..Len(lines) |-> indent_line(lines[ind], tc)]

----------------------------------------------------------------------------
(* traceb.py: render_tb_source *)

Raised(e)   == [st |-> "raised", err |-> e, text |-> <<>>]
Returned(t) == [st |-> "ok", err |-> "none", text |-> t]
Pending     == [st |-> "pending", err |-> "none", text |-> <<>>]

\* inspect.getsource(co_code): the text, or OSError when it cannot be read
getsource_blank_on_error(frame) ==
    IF frame.readable THEN Returned(frame.src) ELSE Returned(<<>>)
getsource(frame) ==
    IF frame.readable THEN Returned(frame.src) ELSE Raised("OSError")

\* the slice of source lines kept (line 122), given the text
source_slice_stop_early(frame, text) ==
    LET linestart == frame.co_firstlineno
        linestop  == frame.f_lineno - linestart
    IN  SliceTo(Split(text, "\n"), linestop)
source_slice(frame, text) ==
    LET linestart == frame.co_firstlineno
        linestop  == frame.f_lineno - linestart
    IN  SliceTo(Split(text, "\n"), linestop + 1)

\* the loop of lines 128-133 applied to one entry of the wrapped list
\* (ind is the 0-based index of enumerate)
format_line_marker_uncounted(frame, ind, line) ==
    LET lineno  == frame.co_firstlineno + ind
        shown   == IF lineno = frame.f_lineno THEN ERRLINE(line) ELSE line
        linestr == LINENO(RJust(Str(lineno), 3, "0"))
    IN  <<"|">> \o linestr \o <<" ">> \o shown
format_line(frame, ind, line) ==
    LET lineno  == frame.co_firstlineno + ind - 1
        shown   == IF lineno = frame.f_lineno THEN ERRLINE(line) ELSE line
        linestr == LINENO(RJust(Str(lineno), 3, "0"))
    IN  <<"|">> \o linestr \o <<" ">> \o shown

\* the list `source` when the loop ends
window_lines(frame, text) ==
    LET wrapped == indent_lines(
                       <<FRAME_OVERFLOW>> \o source_slice(frame, text)
                           \o <<FRAME_OVERFLOW>>, 1)
    IN  [i \in 1..Len(wrapped) |-> format_line(frame, i - 1, wrapped[i])]

render_tb_source(frame) ==
    LET got == getsource(frame)
    IN  IF got.st = "raised" THEN got
        ELSE Returned(Join(window_lines(frame, got.text), NEWLINE))

----------------------------------------------------------------------------
(* Inputs of render_tb_source *)

RECURSIVE TextsOfLen(_)
TextsOfLen(n) ==
    IF n = 0 THEN {<<>>}
    ELSE {t \o <<c>> : t \in TextsOfLen(n - 1), c \in {"x", "\n"}}

\* getsource never returns an empty text
SrcTexts == UNION {TextsOfLen(n) : n \in 1..MaxSrcLen}

SrcFrames ==
    [co_firstlineno : 1..MaxFirstLine, f_lineno : 0..MaxLineno,
     readable : {TRUE}, src : SrcTexts]
    \cup
    [co_firstlineno : 1..MaxFirstLine, f_lineno : 0..MaxLineno,
     readable : {FALSE}, src : {<<>>}]

SrcInit ==
    /\ sframe \in SrcFrames
    /\ swin = Pending

\* render_tb_source(frame, co_code)
SrcRender ==
    /\ swin.st = "pending"
    /\ swin' = render_tb_source(sframe)
    /\ UNCHANGED <<sframe, tbVars, shVars, bdVars>>

SrcNext == SrcRender

----------------------------------------------------------------------------
(* traceb.py: TracebackRender, render_tb, render_tb_frame *)

NoTb == 0
NoClass == <<>>
TracebackRenderCls == <<"TracebackRender">>

\* Python's private-name mangling: an identifier `__x` written inside the body
\* of class C denotes `_C__x`; written anywhere else it denotes itself
Mangle(name, cls) ==
    IF cls # NoClass /\ name[1] = "__" /\ name[Len(name)] # "__"
    THEN <<"_">> \o cls \o name
    ELSE name

\* __slots__ is written in the class body, so its names are mangled
Slots ==
    {Mangle(n, TracebackRenderCls) :
        n \in {<<"__", "rendered">>, <<"__", "last_tb">>, <<"__", "error">>}}

\* the attribute `render.__rendered` names in render_tb_frame, a module-level
\* function (line 115)
frame_rendered_attr == Mangle(<<"__", "rendered">>, NoClass)

\* tb.tb_next, for the tb at position i of the chain
tb_next(i) == IF i < Len(chain) THEN i + 1 ELSE NoTb

\* inner(tb) assigns render.last in its else branch only (lines 87-90)
inner_sets_last_always(tb) == TRUE
inner_sets_last(tb) == tb_next(tb) = NoTb

\* f"{value}" of a local's value
PyStr(v) == IF v.kind = "int" THEN Str(v.int) ELSE v.str

\* f"{name}: {value}"
local_line(entry) == entry[1] \o <<":", " ">> \o PyStr(entry[2])

\* the mapping `message` lists (line 63)
message_locals_head(tb) == chain[1].f_locals
message_locals(tb) == chain[tb].f_locals

\* the `message` property (lines 57-67); last_tb = None makes line 63 raise
message ==
    IF last_tb = NoTb THEN Raised("AttributeError")
    ELSE LET first     == Join(Reversed(rendered), NEWLINE)
             tb_locals == message_locals(last_tb)
             entries   == [i \in 1..Len(tb_locals) |-> local_line(tb_locals[i])]
         IN  Returned(Join(<<first, <<"locals:">>>> \o indent_lines(entries, 0),
                           NEWLINE))

\* the text render_tb_frame builds for one frame (lines 103-113), or the
\* exception render_tb_source lets through
frame_block(frame) ==
    LET win == render_tb_source(frame)
        hdr == <<"from ">> \o frame.co_filename
        fn  == indent_line(<<"in ", "'">> \o frame.co_name \o <<"'", " @ line ">>
                               \o Str(frame.f_lineno) \o <<":">>, 0)
    IN  IF win.st = "raised" THEN win
        ELSE Returned(Join(<<hdr, fn, win.text>>, NEWLINE))

IntVal(n) == [kind |-> "int", int |-> n, str |-> <<>>]
StrVal(t) == [kind |-> "str", int |-> 0, str |-> t]

\* f_locals: an ordered mapping, as a sequence of <<name, value>>
LocalsSet ==
    { <<>>,
      << <<<<"n">>, IntVal(0)>> >>,
      << <<<<"x">>, IntVal(1)>>, <<<<"y">>, StrVal(<<"a">>)>> >> }

TbFrames ==
    [co_filename : {<<"a">>}, co_name : {<<"f">>}, co_firstlineno : {1},
     f_lineno : {1, 2}, readable : BOOLEAN, src : {<<"x", "\n", "x", "\n">>},
     f_locals : LocalsSet]

Chains == UNION {[1..n -> TbFrames] : n \in 1..MaxFrames}

TbInit ==
    /\ caller \in {"render_tb", "api"}
    /\ chain \in Chains
    /\ pc = IF caller = "render_tb" THEN "inner" ELSE "api_new"
    /\ cur = 1
    /\ rendered = <<>>
    /\ last_tb = NoTb
    /\ lastWrites = 0
    /\ err = "none"
    /\ msg = Pending

\* inner(tb), up to the call of render_tb_frame (lines 86-90)
inner ==
    /\ pc = "inner"
    /\ last_tb' = IF inner_sets_last(cur) THEN cur ELSE last_tb
    /\ lastWrites' = IF inner_sets_last(cur) THEN lastWrites + 1 ELSE lastWrites
    /\ IF tb_next(cur) # NoTb
       THEN cur' = tb_next(cur) /\ pc' = "inner"
       ELSE cur' = cur /\ pc' = "frame"
    /\ UNCHANGED <<caller, chain, rendered, err, msg, srcVars, shVars, bdVars>>

\* render_tb_frame(tb, render=render) and the return to the enclosing inner()
\* or, from the head, to render_tb (lines 91, 93-94, 97-115)
render_tb_frame ==
    /\ pc = "frame"
    /\ LET blk == frame_block(chain[cur])
       IN  IF blk.st = "raised"
           THEN /\ pc' = "raised" /\ err' = blk.err
                /\ UNCHANGED <<cur, rendered>>
           ELSE IF frame_rendered_attr \notin Slots
           THEN /\ pc' = "raised" /\ err' = "AttributeError"
                /\ UNCHANGED <<cur, rendered>>
           ELSE /\ rendered' = Append(rendered, blk.text)
                /\ err' = err
                /\ IF cur = 1
                   THEN pc' = "returned" /\ cur' = cur
                   ELSE pc' = "frame" /\ cur' = cur - 1
    /\ UNCHANGED <<caller, chain, last_tb, lastWrites, msg, srcVars, shVars, bdVars>>

\* render.last = tb, by a user of the class (lines 53-55)
last_setter ==
    /\ pc = "api_new"
    /\ \E tb \in 1..Len(chain) :
           /\ last_tb' = tb
           /\ lastWrites' = lastWrites + 1
    /\ pc' = "api_set"
    /\ UNCHANGED <<caller, chain, cur, rendered, err, msg, srcVars, shVars, bdVars>>

\* render.message / str(render), on a render the caller holds
message_get ==
    /\ pc \in {"api_new", "api_set", "returned"}
    /\ msg.st = "pending"
    /\ msg' = message
    /\ UNCHANGED <<caller, chain, pc, cur, rendered, last_tb, lastWrites, err,
                   srcVars, shVars, bdVars>>

TbNext == inner \/ render_tb_frame \/ last_setter \/ message_get

----------------------------------------------------------------------------
(* shell/base.py *)

UNKNOWN == "InputTokens.UNKNOWN"
EXIT    == "InputTokens.EXIT"

\* InputTokens(value): lookup of an enum member by value
InputTokens(value) ==
    IF value = "unknown" THEN UNKNOWN
    ELSE IF value = "exit" THEN EXIT
    ELSE "ValueError"

\* what shellin returns once the input caller has returned `response`
shellin_exit_on_error(response) ==
    LET t == InputTokens(response)
    IN  IF t = "ValueError" THEN <<InputTokens("exit"), response>>
        ELSE <<t, response>>
shellin(response) ==
    LET t == InputTokens(response)
    IN  IF t = "ValueError" THEN <<InputTokens("unknown"), response>>
        ELSE <<t, response>>

\* lines the user may type
Responses == {"exit", "unknown", "ls", "", "exit ", "EXIT"}

ShInit ==
    /\ shpc = "loop"
    /\ token = InputTokens("unknown")
    /\ reads = <<>>
    /\ out = <<>>
    /\ renders = 0
    /\ faults = 0

\* one iteration of the while loop in which input() returns a line, and the
\* test of the loop condition that follows it
loop_read ==
    /\ shpc = "loop"
    /\ Len(reads) < MaxReads
    /\ \E response \in Responses :
           /\ token' = shellin(response)[1]
           /\ reads' = Append(reads, response)
    /\ shpc' = IF token' # EXIT THEN "loop" ELSE "returned"
    /\ UNCHANGED <<out, renders, faults, srcVars, tbVars, bdVars>>

\* one iteration in which input() raises (EOFError at the end of stdin,
\* KeyboardInterrupt): shellin catches ValueError only and main_shell_loop
\* catches nothing, calls neither render_tb nor shellout
loop_fault ==
    /\ shpc = "loop"
    /\ faults' = faults + 1
    /\ shpc' = "escaped"
    /\ UNCHANGED <<token, reads, out, renders, srcVars, tbVars, bdVars>>

ShNext == loop_read \/ loop_fault

----------------------------------------------------------------------------
(* build/setup.py: parse_build *)

NoneVal    == [none |-> TRUE, list |-> <<>>]
ListVal(l) == [none |-> FALSE, list |-> l]

\* truth value of a field: None and [] are false
Truthy(v) == ~v.none /\ v.list # <<>>

Range(f) == {f[i] : i \in DOMAIN f}

\* list(a_set): the elements once each, in an order the set decides
ListsOf(S) == {l \in [1..Cardinality(S) -> S] : Range(l) = S}

BuildKeys == {"name", "install_requires", "packages"}

\* ConfigBuild.copy(): cls(**dataclasses.asdict(self))
copy(cfg) == [k \in BuildKeys |-> cfg[k]]

\* the object whose fields the returned mapping is made of (line 290)
build_source(loaded, merged) == loaded

\* lines 290-294: asdict, then drop every key whose value is false
asdict_used(cfg) == [k \in {j \in BuildKeys : Truthy(cfg[j])} |-> cfg[k]]

\* the set lines 276-279 (283-286) build from a loaded set and a manifest field
merge(loadedSet, field) ==
    loadedSet \cup (IF Truthy(field) THEN Range(field.list) ELSE {})

\* the state load_build_from_manifest leaves: SETUP_BUILD = ConfigBuild(**build_params)
BdInit ==
    /\ build_params \in
           [name : {NoneVal, ListVal(<<"chell">>)},
            install_requires :
                {NoneVal, ListVal(<<>>), ListVal(<<"yaml">>),
                 ListVal(<<"yaml", "rich">>)},
            packages : {NoneVal, ListVal(<<"chell">>), ListVal(<<"extra">>)}]
    /\ SETUP_BUILD = build_params
    /\ reqLines \in SUBSET {"yaml\n", "click\n"}
    /\ found \in SUBSET {"chell", "chell.shell"}
    /\ bpc = "loaded"
    /\ setup_build = SETUP_BUILD
    /\ build = [k \in {} |-> NoneVal]

parse_build ==
    /\ bpc = "loaded"
    /\ \E reqs \in ListsOf(merge(reqLines, copy(SETUP_BUILD).install_requires)),
          pkgs \in ListsOf(merge(found, copy(SETUP_BUILD).packages)) :
           /\ setup_build' = [copy(SETUP_BUILD) EXCEPT
                                  !.install_requires = ListVal(reqs),
                                  !.packages = ListVal(pkgs)]
           /\ build' = asdict_used(build_source(SETUP_BUILD, setup_build'))
    /\ bpc' = "parsed"
    /\ UNCHANGED <<build_params, SETUP_BUILD, reqLines, found, srcVars, tbVars, shVars>>

BdNext == parse_build

----------------------------------------------------------------------------
(* Specifications: each runs one part of the program, the others stay idle *)

SrcIdle == sframe = [co_firstlineno |-> 1, f_lineno |-> 1, readable |-> FALSE,
                     src |-> <<>>]
           /\ swin = Raised("idle")
TbIdle  == /\ caller = "none" /\ chain = <<>> /\ pc = "idle" /\ cur = 0
           /\ rendered = <<>> /\ last_tb = NoTb /\ lastWrites = 0
           /\ err = "none" /\ msg = Pending
ShIdle  == /\ shpc = "idle" /\ token = UNKNOWN /\ reads = <<>> /\ out = <<>>
           /\ renders = 0 /\ faults = 0
BdIdle  == /\ build_params = [k \in BuildKeys |-> NoneVal]
           /\ SETUP_BUILD = [k \in BuildKeys |-> NoneVal] /\ reqLines = {}
           /\ found = {} /\ bpc = "idle"
           /\ setup_build = [k \in BuildKeys |-> NoneVal]
           /\ build = [k \in {} |-> NoneVal]

InitSrc   == SrcInit /\ TbIdle /\ ShIdle /\ BdIdle
InitTb    == SrcIdle /\ TbInit /\ ShIdle /\ BdIdle
InitShell == SrcIdle /\ TbIdle /\ ShInit /\ BdIdle
InitBuild == SrcIdle /\ TbIdle /\ ShIdle /\ BdInit

SpecSrc   == InitSrc /\ [][SrcNext]_vars
SpecTb    == InitTb /\ [][TbNext]_vars
SpecShell == InitShell /\ [][ShNext]_vars
SpecBuild == InitBuild /\ [][BdNext]_vars

Init == InitSrc \/ InitTb \/ InitShell \/ InitBuild

Next ==
    \/ SrcRender
    \/ inner \/ render_tb_frame \/ last_setter \/ message_get
    \/ loop_read \/ loop_fault
    \/ parse_build

Spec == Init /\ [][Next]_vars

----------------------------------------------------------------------------
(* Properties of render_tb_source (SpecSrc) *)

\* the lines of the returned window
WinLines == Split(swin.text, "\n")

Offset(frame) == frame.f_lineno - frame.co_firstlineno

\* the lines inspect.getsource(co_code).split(NEWLINE) yields
SourceLines(frame) == Split(frame.src, "\n")

HasMark(l) ==
    /\ Len(l) >= Len(ErrSuffix)
    /\ SubSeq(l, Len(l) - Len(ErrSuffix) + 1, Len(l)) = ErrSuffix

DigitVal(c) == CHOOSE d \in 0..9 : Digit(d) = c

\* the number a window line shows: the three digits after "|" and the colour
ShownNumber(l) == 100 * DigitVal(l[3]) + 10 * DigitVal(l[4]) + DigitVal(l[5])

\* a window line without "|", its coloured number and the space after it
LineBody(l) == SubSeq(l, 8, Len(l))

IsOverflowLine(l) == LineBody(l) = TAB \o FRAME_OVERFLOW

ValidFrame(frame) ==
    /\ frame.readable
    /\ frame.co_firstlineno <= frame.f_lineno
    /\ Len(SourceLines(frame)) >= Offset(frame) + 1

\* C3: for a valid frame exactly one line of the window carries the failing-line
\* marker; that line's number, codeStart + index - 1, is the frame's errLine and
\* is the number it shows; it is neither the first nor the last (overflow) line.
C3_OneHighlightAtErrLine ==
    (swin.st = "ok" /\ ValidFrame(sframe)) =>
        LET L == WinLines
            H == {i \in 1..Len(L) : HasMark(L[i])}
        IN  /\ Cardinality(H) = 1
            /\ \A i \in H :
                   /\ sframe.co_firstlineno + (i - 1) - 1 = sframe.f_lineno
                   /\ ShownNumber(L[i]) = sframe.f_lineno
                   /\ i # 1 /\ i # Len(L)
                   /\ ~IsOverflowLine(L[i])

\* a valid frame whose failing line is neither the first nor the last source line
C3_Witness ==
    /\ swin.st = "ok" /\ ValidFrame(sframe)
    /\ Offset(sframe) >= 1
    /\ Len(SourceLines(sframe)) > Offset(sframe) + 1
    /\ \E i \in 1..Len(WinLines) : HasMark(WinLines[i])

\* the window is: overflow line, the first offset+1 source lines, overflow line
WindowIsStartThroughErrLine(frame, L) ==
    LET offset == Offset(frame)
    IN  /\ Len(L) = offset + 3
        /\ IsOverflowLine(L[1])
        /\ IsOverflowLine(L[Len(L)])
        /\ \A k \in 1..(offset + 1) :
               LET body == TAB \o SourceLines(frame)[k]
               IN  LineBody(L[k + 1]) \in {body, ERRLINE(body)}

\* C4 as stated: for every offset >= 0 the window has offset + 1 source lines
\* between two overflow lines.
C4_AsStated ==
    (swin.st = "ok" /\ Offset(sframe) >= 0) =>
        WindowIsStartThroughErrLine(sframe, WinLines)

\* C4, amended: the same, for every offset >= 0 that the source text covers
\* (the text has at least offset + 1 lines).
C4_WindowSize ==
    (swin.st = "ok" /\ Offset(sframe) >= 0
       /\ Len(SourceLines(sframe)) >= Offset(sframe) + 1) =>
        WindowIsStartThroughErrLine(sframe, WinLines)

\* source lines after the failing line exist and are dropped
C4_Witness ==
    /\ swin.st = "ok"
    /\ Offset(sframe) = 1
    /\ Len(SourceLines(sframe)) >= 4
    /\ Len(WinLines) = 4

Min(a, b) == IF a < b THEN a ELSE b
Max(a, b) == IF a > b THEN a ELSE b

\* C7: with the offset negative or past the end of the source, the call does
\* not fail and keeps min(max(offset + 1, 0), number of source lines) lines.
C7_SliceClamped ==
    (swin.st # "pending" /\ sframe.readable) =>
        /\ swin.st = "ok"
        /\ Len(WinLines) - 2 =
               Min(Max(Offset(sframe) + 1, 0), Len(SourceLines(sframe)))

----------------------------------------------------------------------------
(* Properties of render_tb and TracebackRender (SpecTb) *)

RECURSIVE FollowNext(_)
\* the tb reached from tb i by following tb_next until there is none
FollowNext(i) == IF tb_next(i) = NoTb THEN i ELSE FollowNext(tb_next(i))

Deepest == FollowNext(1)

AllReadable == \A i \in 1..Len(chain) : chain[i].readable

CallEnded == pc \in {"returned", "raised"}

\* C1: a render_tb call on a well-formed chain of N frames completes with N
\* blocks in `rendered`, the deepest frame's first, and the message shows them
\* reversed: the head frame's block first, the deepest frame's last.
C1_BlockPerFrameReversed ==
    (caller = "render_tb" /\ CallEnded /\ AllReadable) =>
        LET N == Len(chain)
        IN  /\ pc = "returned"
            /\ Len(rendered) = N
            /\ \A i \in 1..N : rendered[i] = frame_block(chain[N + 1 - i]).text
            /\ \A i \in 1..N :
                   Reversed(rendered)[i] = frame_block(chain[i]).text

\* C2: during a render_tb call render.last is assigned exactly once, to the tb
\* reached by following tb_next to the end, and keeps that value.
C2_LastIsDeepestSetOnce ==
    caller = "render_tb" =>
        /\ lastWrites <= 1
        /\ (lastWrites = 0 <=> last_tb = NoTb)
        /\ (last_tb # NoTb => last_tb = Deepest /\ tb_next(last_tb) = NoTb)
        /\ (pc # "inner" => lastWrites = 1 /\ last_tb = Deepest)

\* a call on a chain of several frames has ended
C2_Witness ==
    /\ caller = "render_tb" /\ CallEnded
    /\ Len(chain) >= 3
    /\ lastWrites = 1 /\ last_tb = Len(chain)

\* index of the first line equal to `locals:` (0 when there is none)
LocalsAt(L) ==
    IF \E k \in 1..Len(L) : L[k] = <<"locals:">>
    THEN CHOOSE k \in 1..Len(L) :
             L[k] = <<"locals:">> /\ \A j \in 1..(k - 1) : L[j] # <<"locals:">>
    ELSE 0

C6_UnreadableSourceFails ==
    (caller = "render_tb" /\ ~AllReadable) =>
        /\ pc # "returned"
        /\ msg.st = "pending"
        /\ (pc \in {"inner", "frame"} \/ (pc = "raised" /\ err # "none"))
        /\ ((pc = "raised" /\ ~chain[cur].readable) => err = "OSError")
        /\ (pc = "raised" => Len(rendered) < Len(chain))

\* the read of the deepest of several frames failed
C6_Witness ==
    /\ caller = "render_tb" /\ pc = "raised" /\ err = "OSError"
    /\ Len(chain) >= 2
    /\ ~chain[cur].readable

----------------------------------------------------------------------------
(* Properties of main_shell_loop (SpecShell) *)

\* C8: a fault inside the loop is rendered (one render_tb call and one write
\* through shellout per fault) and the loop goes on; no fault ends the loop or
\* leaves it.
C8_FaultRenderedLoopContinues ==
    faults > 0 =>
        /\ shpc # "escaped"
        /\ renders = faults
        /\ Len(out) = faults

----------------------------------------------------------------------------
(* Properties of parse_build (SpecBuild) *)

\* C10: the mapping parse_build returns holds the merged install_requires and
\* packages, and SETUP_BUILD is as it was loaded.
C10_ReturnsMergedValues ==
    bpc = "parsed" =>
        LET reqs == merge(reqLines, build_params.install_requires)
            pkgs == merge(found, build_params.packages)
        IN  /\ reqs # {} =>
                   /\ "install_requires" \in DOMAIN build
                   /\ Range(build["install_requires"].list) = reqs
            /\ pkgs # {} =>
                   /\ "packages" \in DOMAIN build
                   /\ Range(build["packages"].list) = pkgs
            /\ SETUP_BUILD = build_params

====
